---- MODULE Spec2Model ----
(***************************************************************************)
(* The argument-to-value parser of the json command (sequence grammar,     *)
(* with the key and json assertions): parse, parse1, parseKeyValues,       *)
(* parseValue and the token cursor, as a state machine with an explicit    *)
(* call stack.  One action is one block of a function between two cursor   *)
(* operations or calls.                                                    *)
(*                                                                         *)
(* An argument is a sequence of one-character strings, so that suffix      *)
(* tests, colon stripping, number syntax and JSON text are computed and    *)
(* not assumed.                                                            *)
(***************************************************************************)
EXTENDS Integers, Sequences, FiniteSets, TLC

(***************************************************************************)
(* Bounds of the model: the longest argument list made of the arguments    *)
(* that give a list its structure (CoreArgs), and the longest made of all  *)
(* the arguments of the model (ArgSet).                                    *)
(***************************************************************************)
MaxArgs == 5

MaxWide == 3

\* The same two lengths for the lists a parse is followed to its end on.
MaxLiveArgs == 4

MaxLiveWide == 2

(***************************************************************************)
(* Characters.                                                             *)
(***************************************************************************)
Digit == {"0", "1", "2", "3", "4", "5", "6", "7", "8", "9"}

DigitSeq == <<"0", "1", "2", "3", "4", "5", "6", "7", "8", "9">>

DigitVal(c) == (CHOOSE i \in 1..10 : DigitSeq[i] = c) - 1

UpperSeq == <<"A", "B", "C", "D", "E", "F", "G", "H", "I", "J", "K", "L", "M",
              "N", "O", "P", "Q", "R", "S", "T", "U", "V", "W", "X", "Y", "Z">>

LowerSeq == <<"a", "b", "c", "d", "e", "f", "g", "h", "i", "j", "k", "l", "m",
              "n", "o", "p", "q", "r", "s", "t", "u", "v", "w", "x", "y", "z">>

\* strconv's lower(c): c | ('x' - 'X'), on letters.
Lower(c) ==
    IF \E i \in 1..26 : UpperSeq[i] = c
    THEN LowerSeq[CHOOSE i \in 1..26 : UpperSeq[i] = c]
    ELSE c

\* Byte order of the characters the arguments of the model are made of.
ByteOrder == <<" ", "\"", "+", ",", "-", ".",
               "0", "1", "2", "3", "4", "5", "6", "7", "8", "9", ":">>
             \o UpperSeq \o <<"[", "\\", "]", "_">> \o LowerSeq \o <<"{", "}">>

ByteRank(c) == CHOOSE i \in 1..Len(ByteOrder) : ByteOrder[i] = c

\* s < t for two strings, bytewise (sort.Strings, used by json.Marshal on map keys).
RECURSIVE StrLess(_, _)
StrLess(s, t) ==
    IF t = <<>> THEN FALSE
    ELSE IF s = <<>> THEN TRUE
    ELSE IF s[1] = t[1] THEN StrLess(Tail(s), Tail(t))
    ELSE ByteRank(s[1]) < ByteRank(t[1])

\* strings.HasSuffix(a, ":")
HasColonSuffix(a) == Len(a) > 0 /\ a[Len(a)] = ":"

\* key[0 : len(key)-1]
StripLast(a) == SubSeq(a, 1, Len(a) - 1)

(***************************************************************************)
(* The tokens the parser compares an argument with.                        *)
(***************************************************************************)
tOpen == <<"[">>
tArr == <<".", "[">>
tClose == <<"]">>
tNull == <<"n", "u", "l", "l">>
tTrue == <<"t", "r", "u", "e">>
tFalse == <<"f", "a", "l", "s", "e">>
tStr == <<"s", "t", "r">>
tJson == <<"j", "s", "o", "n">>
tJsonstr == <<"j", "s", "o", "n", "s", "t", "r">>
tNum == <<"n", "u", "m">>
tBool == <<"b", "o", "o", "l">>
tKey == <<"k", "e", "y">>

(***************************************************************************)
(* float64 values.  A finite value is sign, decimal mantissa and decimal   *)
(* exponent, the mantissa without trailing zeros, so that two texts of the *)
(* same number are the same value.  Every argument of the model has fewer  *)
(* than 15 significant digits, for which the conversion to float64 and     *)
(* back to the shortest decimal is exact.                                  *)
(***************************************************************************)
RECURSIVE Normalize(_, _)
Normalize(mant, exp) ==
    IF mant = 0 THEN [mant |-> 0, exp |-> 0]
    ELSE IF mant % 10 = 0 THEN Normalize(mant \div 10, exp + 1)
    ELSE [mant |-> mant, exp |-> exp]

RECURSIVE NumDigits(_)
NumDigits(n) == IF n < 10 THEN 1 ELSE 1 + NumDigits(n \div 10)

Finite(neg, mant, exp) ==
    LET n == Normalize(mant, exp)
    IN  [cls |-> "finite", neg |-> neg, mant |-> n.mant, exp |-> n.exp]

Inf(neg) == [cls |-> "inf", neg |-> neg, mant |-> 0, exp |-> 0]

NaN == [cls |-> "nan", neg |-> FALSE, mant |-> 0, exp |-> 0]

\* math.IsInf(n, 0) || math.IsNaN(n)
IsInfOrNaN(f) == f.cls \in {"inf", "nan"}

(***************************************************************************)
(* strconv.ParseFloat(s, 64).  The hexadecimal form (0x...p...) is left    *)
(* out: no argument of the model holds an x after a leading 0.             *)
(***************************************************************************)
\* commonPrefixLenIgnoreCase(s, prefix)
RECURSIVE CommonPrefixLen(_, _)
CommonPrefixLen(s, prefix) ==
    IF s = <<>> \/ prefix = <<>> THEN 0
    ELSE IF Lower(s[1]) = prefix[1] THEN 1 + CommonPrefixLen(Tail(s), Tail(prefix))
    ELSE 0

\* special(s): the (possibly signed) Inf, Infinity and the unsigned NaN.
Special(s) ==
    LET signed == Len(s) > 0 /\ s[1] \in {"+", "-"}
        rest == IF signed THEN Tail(s) ELSE s
        nsign == IF signed THEN 1 ELSE 0
        n0 == CommonPrefixLen(rest, <<"i", "n", "f", "i", "n", "i", "t", "y">>)
        n == IF 3 < n0 /\ n0 < 8 THEN 3 ELSE n0
    IN  IF Len(s) = 0 THEN [ok |-> FALSE]
        ELSE IF (signed \/ Lower(s[1]) = "i") /\ n \in {3, 8}
        THEN [ok |-> TRUE, f |-> Inf(signed /\ s[1] = "-"), n |-> nsign + n]
        ELSE IF ~signed /\ Lower(s[1]) = "n"
                /\ CommonPrefixLen(s, <<"n", "a", "n">>) = 3
        THEN [ok |-> TRUE, f |-> NaN, n |-> 3]
        ELSE [ok |-> FALSE]

\* readFloat's loop over the mantissa, from position i (1-based).
RECURSIVE ScanMantissa(_, _, _)
ScanMantissa(s, i, st) ==
    IF i > Len(s) THEN [st EXCEPT !.i = i]
    ELSE LET c == s[i] IN
        IF c = "_" THEN ScanMantissa(s, i + 1, [st EXCEPT !.underscores = TRUE])
        ELSE IF c = "." THEN
            IF st.sawdot THEN [st EXCEPT !.i = i]
            ELSE ScanMantissa(s, i + 1, [st EXCEPT !.sawdot = TRUE, !.dp = st.nd])
        ELSE IF c \in Digit THEN
            IF c = "0" /\ st.nd = 0
            THEN ScanMantissa(s, i + 1, [st EXCEPT !.sawdigits = TRUE, !.dp = st.dp - 1])
            ELSE IF st.ndMant < 19
            THEN ScanMantissa(s, i + 1,
                    [st EXCEPT !.sawdigits = TRUE, !.nd = st.nd + 1,
                               !.mantissa = st.mantissa * 10 + DigitVal(c),
                               !.ndMant = st.ndMant + 1])
            ELSE ScanMantissa(s, i + 1, [st EXCEPT !.sawdigits = TRUE, !.nd = st.nd + 1])
        ELSE [st EXCEPT !.i = i]

\* readFloat's loop over the digits of the exponent.
RECURSIVE ScanExponent(_, _, _)
ScanExponent(s, i, st) ==
    IF i > Len(s) \/ ~(s[i] \in Digit \/ s[i] = "_") THEN [st EXCEPT !.i = i]
    ELSE IF s[i] = "_" THEN ScanExponent(s, i + 1, [st EXCEPT !.underscores = TRUE])
    ELSE IF st.e < 10000
    THEN ScanExponent(s, i + 1, [st EXCEPT !.e = st.e * 10 + DigitVal(s[i])])
    ELSE ScanExponent(s, i + 1, st)

\* underscoreOK(s), without the base prefix: an underscore only between digits.
RECURSIVE UnderscoreScan(_, _)
UnderscoreScan(s, saw) ==
    IF s = <<>> THEN saw /= "_"
    ELSE IF s[1] \in Digit THEN UnderscoreScan(Tail(s), "0")
    ELSE IF s[1] = "_" THEN saw = "0" /\ UnderscoreScan(Tail(s), "_")
    ELSE saw /= "_" /\ UnderscoreScan(Tail(s), "!")

UnderscoreOK(s) ==
    UnderscoreScan(IF Len(s) >= 1 /\ s[1] \in {"+", "-"} THEN Tail(s) ELSE s, "^")

\* readFloat(s): [ok, neg, mantissa, exp, i] with i the position after the number.
ReadFloat(s) ==
    LET signed == Len(s) > 0 /\ s[1] \in {"+", "-"}
        neg == Len(s) > 0 /\ s[1] = "-"
        i0 == IF signed THEN 2 ELSE 1
        m == ScanMantissa(s, i0,
                [i |-> i0, sawdot |-> FALSE, sawdigits |-> FALSE, nd |-> 0,
                 ndMant |-> 0, dp |-> 0, mantissa |-> 0, underscores |-> FALSE, e |-> 0])
        dp1 == IF m.sawdot THEN m.dp ELSE m.nd
        hasExp == m.i <= Len(s) /\ Lower(s[m.i]) = "e"
        j == m.i + 1
        esigned == j <= Len(s) /\ s[j] \in {"+", "-"}
        eneg == j <= Len(s) /\ s[j] = "-"
        k == IF esigned THEN j + 1 ELSE j
        x == ScanExponent(s, k, m)
        dp2 == IF hasExp THEN dp1 + (IF eneg THEN 0 - x.e ELSE x.e) ELSE dp1
        last == IF hasExp THEN x ELSE m
        bad == [ok |-> FALSE]
    IN  IF Len(s) = 0 THEN bad
        ELSE IF ~m.sawdigits THEN bad
        ELSE IF hasExp /\ (j > Len(s) \/ k > Len(s) \/ s[k] \notin Digit) THEN bad
        ELSE IF last.underscores /\ ~UnderscoreOK(SubSeq(s, 1, last.i - 1)) THEN bad
        ELSE [ok |-> TRUE, neg |-> neg, mantissa |-> m.mantissa,
              exp |-> IF m.mantissa /= 0 THEN dp2 - m.ndMant ELSE 0, i |-> last.i]

\* strconv.ParseFloat(s, 64): [err, f].  err is "" (nil), "syntax" or "range".
\* A float64 overflows above the decimal exponent 308 (math.MaxFloat64 is
\* 1.79e308) and rounds to zero below -324 (the smallest is 4.9e-324).
ParseFloat(s) ==
    LET sp == Special(s)
        r == ReadFloat(s)
        mag == NumDigits(r.mantissa) + r.exp - 1
    IN  IF sp.ok
        THEN IF sp.n = Len(s) THEN [err |-> "", f |-> sp.f]
             ELSE [err |-> "syntax", f |-> Finite(FALSE, 0, 0)]
        ELSE IF ~r.ok \/ r.i /= Len(s) + 1
        THEN [err |-> "syntax", f |-> Finite(FALSE, 0, 0)]
        ELSE IF r.mantissa /= 0 /\ mag > 308
        THEN [err |-> "range", f |-> Inf(r.neg)]
        ELSE IF r.mantissa /= 0 /\ mag < -324
        THEN [err |-> "", f |-> Finite(r.neg, 0, 0)]
        ELSE [err |-> "", f |-> Finite(r.neg, r.mantissa, r.exp)]

(***************************************************************************)
(* strconv.ParseBool(str): [err, b].                                       *)
(***************************************************************************)
ParseBool(s) ==
    IF s \in {<<"1">>, <<"t">>, <<"T">>, <<"T", "R", "U", "E">>, tTrue,
              <<"T", "r", "u", "e">>}
    THEN [err |-> FALSE, b |-> TRUE]
    ELSE IF s \in {<<"0">>, <<"f">>, <<"F">>, <<"F", "A", "L", "S", "E">>, tFalse,
                   <<"F", "a", "l", "s", "e">>}
    THEN [err |-> FALSE, b |-> FALSE]
    ELSE [err |-> TRUE, b |-> FALSE]

(***************************************************************************)
(* Values: what parseValue returns as interface{}.                         *)
(*   nil, bool, float64, json.Number, string, []interface{} (which may be  *)
(*   the nil slice) and map[string]interface{}.                            *)
(***************************************************************************)
Null == [kind |-> "null"]

BoolV(b) == [kind |-> "bool", b |-> b]

FloatV(f) == [kind |-> "float", f |-> f]

NumberV(text) == [kind |-> "number", text |-> text]

StringV(s) == [kind |-> "string", s |-> s]

\* A slice: its elements and whether it is the nil slice (var v []interface{}
\* never appended to).
ArrayV(elems, isNil) == [kind |-> "array", elems |-> elems, isNil |-> isNil]

\* A map, as a function from its keys.
ObjectV(m) == [kind |-> "object", m |-> m]

EmptyMap == [k \in {} |-> Null]

\* v[key] = val
MapPut(m, key, val) ==
    [k \in DOMAIN m \cup {key} |-> IF k = key THEN val ELSE m[k]]

(***************************************************************************)
(* encoding/json: Marshal.                                                 *)
(***************************************************************************)
RECURSIVE IntDigits(_)
IntDigits(n) ==
    IF n < 10 THEN <<DigitSeq[n + 1]>>
    ELSE IntDigits(n \div 10) \o <<DigitSeq[(n % 10) + 1]>>

RECURSIVE Zeros(_)
Zeros(n) == IF n <= 0 THEN <<>> ELSE <<"0">> \o Zeros(n - 1)

\* floatEncoder: strconv.AppendFloat(b, f, fmt, -1, 64) of a finite f, with
\* fmt 'e' below 1e-6 and from 1e21 on (and e-09 cleaned up to e-9), else 'f'.
FormatFloat(f) ==
    LET d == IntDigits(f.mant)
        nd == Len(d)
        dp == nd + f.exp
        sign == IF f.neg THEN <<"-">> ELSE <<>>
        x == dp - 1
        ax == IF x < 0 THEN 0 - x ELSE x
        fixed ==
            (IF dp > 0
             THEN SubSeq(d, 1, IF nd < dp THEN nd ELSE dp) \o Zeros(dp - nd)
             ELSE <<"0">>)
            \o (IF nd > dp
                THEN <<".">> \o Zeros(0 - dp) \o SubSeq(d, (IF dp > 0 THEN dp ELSE 0) + 1, nd)
                ELSE <<>>)
        sci ==
            <<d[1]>> \o (IF nd > 1 THEN <<".">> \o SubSeq(d, 2, nd) ELSE <<>>)
            \o <<"e", IF x < 0 THEN "-" ELSE "+">> \o IntDigits(ax)
    IN  IF f.mant = 0 THEN sign \o <<"0">>
        ELSE IF x < -6 \/ x >= 21 THEN sign \o sci
        ELSE sign \o fixed

RECURSIVE SkipDigits(_)
SkipDigits(s) == IF s /= <<>> /\ s[1] \in Digit THEN SkipDigits(Tail(s)) ELSE s

\* isValidNumber(s): the number syntax of JSON.
IsValidNumber(s) ==
    LET s1 == IF s /= <<>> /\ s[1] = "-" THEN Tail(s) ELSE s
        s2 == IF s1 /= <<>> /\ s1[1] = "0" THEN Tail(s1) ELSE SkipDigits(s1)
        s3 == IF Len(s2) >= 2 /\ s2[1] = "." /\ s2[2] \in Digit
              THEN SkipDigits(Tail(s2)) ELSE s2
        hasE == Len(s3) >= 2 /\ s3[1] \in {"e", "E"}
        s4 == IF hasE /\ s3[2] \in {"+", "-"} THEN Tail(Tail(s3))
              ELSE IF hasE THEN Tail(s3) ELSE s3
        s5 == IF hasE THEN SkipDigits(s4) ELSE s3
    IN  /\ s1 /= <<>>
        /\ s1[1] \in Digit
        /\ ~(hasE /\ s4 = <<>>)
        /\ s5 = <<>>

\* encodeState.string(s): quotes, with " and \ escaped.  (The control
\* characters and <, >, & are escaped too: no argument of the model holds one.)
RECURSIVE EscapeString(_)
EscapeString(s) ==
    IF s = <<>> THEN <<>>
    ELSE (IF s[1] \in {"\"", "\\"} THEN <<"\\", s[1]>> ELSE <<s[1]>>)
         \o EscapeString(Tail(s))

QuoteString(s) == <<"\"">> \o EscapeString(s) \o <<"\"">>

\* The keys of a map in the order Marshal writes them (sorted).
RECURSIVE SortedKeys(_)
SortedKeys(S) ==
    IF S = {} THEN <<>>
    ELSE LET k == CHOOSE x \in S : \A y \in S \ {x} : StrLess(x, y)
         IN  <<k>> \o SortedKeys(S \ {k})

\* json.Marshal(v): [err, text].  err is TRUE for an UnsupportedValueError (a
\* float64 that is Inf or NaN) and for an invalid number literal (a json.Number
\* that is not a JSON number).  A nil slice encodes as null.
RECURSIVE Marshal(_)
RECURSIVE MarshalElems(_)
RECURSIVE MarshalMembers(_, _)
Marshal(v) ==
    CASE v.kind = "null" -> [err |-> FALSE, text |-> tNull]
      [] v.kind = "bool" -> [err |-> FALSE, text |-> IF v.b THEN tTrue ELSE tFalse]
      [] v.kind = "float" ->
            IF IsInfOrNaN(v.f) THEN [err |-> TRUE, text |-> <<>>]
            ELSE [err |-> FALSE, text |-> FormatFloat(v.f)]
      [] v.kind = "number" ->
            IF v.text = <<>> THEN [err |-> FALSE, text |-> <<"0">>]
            ELSE IF ~IsValidNumber(v.text) THEN [err |-> TRUE, text |-> <<>>]
            ELSE [err |-> FALSE, text |-> v.text]
      [] v.kind = "string" -> [err |-> FALSE, text |-> QuoteString(v.s)]
      [] v.kind = "array" ->
            IF v.isNil THEN [err |-> FALSE, text |-> tNull]
            ELSE LET e == MarshalElems(v.elems)
                 IN  [err |-> e.err, text |-> <<"[">> \o e.text \o <<"]">>]
      [] v.kind = "object" ->
            LET e == MarshalMembers(v.m, SortedKeys(DOMAIN v.m))
            IN  [err |-> e.err, text |-> <<"{">> \o e.text \o <<"}">>]

MarshalElems(elems) ==
    IF elems = <<>> THEN [err |-> FALSE, text |-> <<>>]
    ELSE LET h == Marshal(elems[1])
             t == MarshalElems(Tail(elems))
         IN  [err |-> h.err \/ t.err,
              text |-> h.text \o (IF Len(elems) > 1 THEN <<",">> ELSE <<>>) \o t.text]

MarshalMembers(m, keys) ==
    IF keys = <<>> THEN [err |-> FALSE, text |-> <<>>]
    ELSE LET h == Marshal(m[keys[1]])
             t == MarshalMembers(m, Tail(keys))
         IN  [err |-> h.err \/ t.err,
              text |-> QuoteString(keys[1]) \o <<":">> \o h.text
                       \o (IF Len(keys) > 1 THEN <<",">> ELSE <<>>) \o t.text]

(***************************************************************************)
(* encoding/json: Decoder.Decode with UseNumber.  Decode reads the first   *)
(* JSON value of the text and leaves what follows it unread.  Of the       *)
(* string escapes, \", \\ and \/ are decoded (the others need characters   *)
(* no argument of the model holds).                                        *)
(***************************************************************************)
Bad == [ok |-> FALSE]

RECURSIVE SkipSpace(_, _)
SkipSpace(t, i) == IF i <= Len(t) /\ t[i] = " " THEN SkipSpace(t, i + 1) ELSE i

HasAt(t, i, lit) == i + Len(lit) - 1 <= Len(t) /\ SubSeq(t, i, i + Len(lit) - 1) = lit

RECURSIVE DigitsEnd(_, _)
DigitsEnd(t, i) == IF i <= Len(t) /\ t[i] \in Digit THEN DigitsEnd(t, i + 1) ELSE i

\* The body of a string, from i, after its opening quote.
RECURSIVE DecString(_, _, _)
DecString(t, i, acc) ==
    IF i > Len(t) THEN Bad
    ELSE IF t[i] = "\"" THEN [ok |-> TRUE, s |-> acc, i |-> i + 1]
    ELSE IF t[i] = "\\" THEN
        IF i + 1 <= Len(t) /\ t[i + 1] \in {"\"", "\\", "/"}
        THEN DecString(t, i + 2, Append(acc, t[i + 1]))
        ELSE Bad
    ELSE DecString(t, i + 1, Append(acc, t[i]))

\* A number literal at i (t[i] is - or a digit), kept as a json.Number.
DecNumber(t, i) ==
    LET a == IF t[i] = "-" THEN i + 1 ELSE i
        okInt == a <= Len(t) /\ t[a] \in Digit
        b == IF okInt /\ t[a] = "0" THEN a + 1 ELSE DigitsEnd(t, a)
        hasFrac == b <= Len(t) /\ t[b] = "."
        okFrac == ~hasFrac \/ (b + 1 <= Len(t) /\ t[b + 1] \in Digit)
        c == IF hasFrac THEN DigitsEnd(t, b + 1) ELSE b
        hasExp == c <= Len(t) /\ t[c] \in {"e", "E"}
        d == IF hasExp /\ c + 1 <= Len(t) /\ t[c + 1] \in {"+", "-"} THEN c + 2 ELSE c + 1
        okExp == ~hasExp \/ (d <= Len(t) /\ t[d] \in Digit)
        e == IF hasExp THEN DigitsEnd(t, d) ELSE c
    IN  IF okInt /\ okFrac /\ okExp
        THEN [ok |-> TRUE, v |-> NumberV(SubSeq(t, i, e - 1)), i |-> e]
        ELSE Bad

RECURSIVE DecValue(_, _)
RECURSIVE DecElems(_, _, _)
RECURSIVE DecMembers(_, _, _)
DecValue(t, i0) ==
    LET i == SkipSpace(t, i0) IN
    IF i > Len(t) THEN Bad
    ELSE IF t[i] = "n"
    THEN IF HasAt(t, i, tNull) THEN [ok |-> TRUE, v |-> Null, i |-> i + 4] ELSE Bad
    ELSE IF t[i] = "t"
    THEN IF HasAt(t, i, tTrue) THEN [ok |-> TRUE, v |-> BoolV(TRUE), i |-> i + 4] ELSE Bad
    ELSE IF t[i] = "f"
    THEN IF HasAt(t, i, tFalse) THEN [ok |-> TRUE, v |-> BoolV(FALSE), i |-> i + 5] ELSE Bad
    ELSE IF t[i] = "\""
    THEN LET r == DecString(t, i + 1, <<>>)
         IN  IF r.ok THEN [ok |-> TRUE, v |-> StringV(r.s), i |-> r.i] ELSE Bad
    ELSE IF t[i] = "-" \/ t[i] \in Digit THEN DecNumber(t, i)
    ELSE IF t[i] = "["
    THEN LET j == SkipSpace(t, i + 1)
         IN  IF j <= Len(t) /\ t[j] = "]"
             THEN [ok |-> TRUE, v |-> ArrayV(<<>>, FALSE), i |-> j + 1]
             ELSE DecElems(t, j, <<>>)
    ELSE IF t[i] = "{"
    THEN LET j == SkipSpace(t, i + 1)
         IN  IF j <= Len(t) /\ t[j] = "}"
             THEN [ok |-> TRUE, v |-> ObjectV(EmptyMap), i |-> j + 1]
             ELSE DecMembers(t, j, EmptyMap)
    ELSE Bad

DecElems(t, i, acc) ==
    LET r == DecValue(t, i) IN
    IF ~r.ok THEN Bad
    ELSE LET j == SkipSpace(t, r.i) IN
        IF j > Len(t) THEN Bad
        ELSE IF t[j] = "," THEN DecElems(t, j + 1, Append(acc, r.v))
        ELSE IF t[j] = "]"
        THEN [ok |-> TRUE, v |-> ArrayV(Append(acc, r.v), FALSE), i |-> j + 1]
        ELSE Bad

DecMembers(t, i0, m) ==
    LET i == SkipSpace(t, i0) IN
    IF i > Len(t) \/ t[i] /= "\"" THEN Bad
    ELSE LET k == DecString(t, i + 1, <<>>) IN
    IF ~k.ok THEN Bad
    ELSE LET c == SkipSpace(t, k.i) IN
    IF c > Len(t) \/ t[c] /= ":" THEN Bad
    ELSE LET r == DecValue(t, c + 1) IN
    IF ~r.ok THEN Bad
    ELSE LET j == SkipSpace(t, r.i) IN
        IF j > Len(t) THEN Bad
        ELSE IF t[j] = "," THEN DecMembers(t, j + 1, MapPut(m, k.s, r.v))
        ELSE IF t[j] = "}"
        THEN [ok |-> TRUE, v |-> ObjectV(MapPut(m, k.s, r.v)), i |-> j + 1]
        ELSE Bad

\* dec.Decode(&x): [err, v].
Decode(t) ==
    LET r == DecValue(t, 1)
    IN  IF r.ok THEN [err |-> FALSE, v |-> r.v] ELSE [err |-> TRUE, v |-> Null]

(***************************************************************************)
(* The argument lists the model parses: every list of at most MaxArgs      *)
(* arguments out of CoreArgs (brackets, keys, a string, null), and every   *)
(* list of at most MaxWide arguments out of ArgSet, which adds the         *)
(* assertions and the forms of numbers.                                    *)
(***************************************************************************)
CoreArgs ==
    {tOpen, tArr, tClose, tKey, <<"a", ":">>, <<"b", ":">>, <<"b">>, tNull}

ArgSet ==
    CoreArgs \cup
    {tTrue, tStr, tJson, tJsonstr, tNum, tBool,
     <<"1">>, <<"+", "1">>, <<"1", ".", "5", "0">>, <<"I", "n", "f">>}

ArgLists ==
    UNION {[1..n -> CoreArgs] : n \in 0..MaxArgs}
    \cup UNION {[1..n -> ArgSet] : n \in 0..MaxWide}

(***************************************************************************)
(* State.                                                                  *)
(*   args, index  the parser's fields (p.args, p.index)                    *)
(*   stack        the calls in progress, the running one last; a frame is  *)
(*                the function, the place in it and its locals             *)
(*   ret          the value the last finished call returned                *)
(*   lastOp       the cursor operation the last step made ("" for none)    *)
(*   phase        "run", "panic" (a panic is unwinding to parse's deferred *)
(*                function), and how parse ended: "ok" (values, nil error),*)
(*                "err" (nil, syntax error), "crash" (the panic left parse)*)
(*   pval         the value of the panic                                   *)
(*   result, err  what parse returned                                      *)
(*   run, first   which call of parse this is ("base", or a second call on *)
(*                a list made from the first one) and how the first ended  *)
(***************************************************************************)
VARIABLES args, index, stack, ret, lastOp, phase, pval, result, err, run, first

vars == <<args, index, stack, ret, lastOp, phase, pval, result, err, run, first>>

\* The number a message gives when it gives none.
NoPos == -1

\* syntaxErrorf(...): the *syntaxError, as its kind, the argument position
\* its message prints and the argument it quotes.
SyntaxError(kind, pos, arg) == [syntax |-> TRUE, kind |-> kind, pos |-> pos, arg |-> arg]

\* The error of json.Marshal, which is not a *syntaxError.
MarshalError == [syntax |-> FALSE, kind |-> "MarshalError", pos |-> NoPos, arg |-> <<>>]

NoError == [syntax |-> FALSE, kind |-> "nil", pos |-> NoPos, arg |-> <<>>]

NoRun == [args |-> <<>>, phase |-> "none", result |-> <<>>, err |-> NoError]

\* "argument %d" printed from p.index when the cursor is still on the argument.
PosAtCursor(i) == i

\* A slip: the position printed from p.index although the cursor has passed.
PosNotAdjusted(i) == i

\* "argument %d" printed from p.index-1 when the cursor has passed the argument.
PosBeforeCursor(i) == i - 1

\* Frames.
P1Frame(pc, exprs) == [fn |-> "parse1", pc |-> pc, exprs |-> exprs]

KVFrame(pc, v, key) == [fn |-> "parseKeyValues", pc |-> pc, v |-> v, key |-> key]

PVFrame(pc, v) == [fn |-> "parseValue", pc |-> pc, v |-> v]

\* parse1(&parser{args: args})
Start(a) ==
    /\ args' = a
    /\ index' = 0
    /\ stack' = <<P1Frame("start", <<>>)>>
    /\ ret' = Null
    /\ lastOp' = ""
    /\ phase' = "run"
    /\ pval' = NoError
    /\ result' = <<>>
    /\ err' = NoError

Init ==
    /\ args \in ArgLists
    /\ index = 0
    /\ stack = <<P1Frame("start", <<>>)>>
    /\ ret = Null
    /\ lastOp = ""
    /\ phase = "run"
    /\ pval = NoError
    /\ result = <<>>
    /\ err = NoError
    /\ run = "base"
    /\ first = NoRun

Top == stack[Len(stack)]

Rest == SubSeq(stack, 1, Len(stack) - 1)

At(fn, pc) == phase = "run" /\ stack /= <<>> /\ Top.fn = fn /\ Top.pc = pc

\* (p *parser) peek()
Peek ==
    IF index >= Len(args) THEN [ok |-> FALSE, a |-> <<>>]
    ELSE [ok |-> TRUE, a |-> args[index + 1]]

\* A slip: next without its test for the end of the arguments.
NextFromUnchecked(i) == i + 1

\* (p *parser) next() with the cursor at i: p.index when it returns.
NextFrom(i) == IF i >= Len(args) THEN i ELSE i + 1

\* p.index after (p *parser) next()
AfterNext == NextFrom(index)

\* A step that goes on: the cursor, the cursor operation made, the stack, the
\* return register.
Go(idx, op, stk, r) ==
    /\ index' = idx
    /\ lastOp' = op
    /\ stack' = stk
    /\ ret' = r
    /\ UNCHANGED <<args, phase, pval, result, err, run, first>>

\* A step that panics with e.
Panic(idx, op, e) ==
    /\ index' = idx
    /\ lastOp' = op
    /\ phase' = "panic"
    /\ pval' = e
    /\ UNCHANGED <<args, stack, ret, result, err, run, first>>

\* mustPeek / mustNext finding no argument.
UnexpectedEnd(op) == Panic(index, op, SyntaxError("UnexpectedEnd", NoPos, <<>>))

\* parse1 returns exprs, and parse returns it with a nil error.
Finish(op, exprs) ==
    /\ index' = index
    /\ lastOp' = op
    /\ stack' = <<>>
    /\ phase' = "ok"
    /\ result' = exprs
    /\ err' = NoError
    /\ UNCHANGED <<args, ret, pval, run, first>>

(***************************************************************************)
(* parse: the deferred function.                                           *)
(***************************************************************************)
Recover ==
    /\ phase = "panic"
    /\ stack' = <<>>
    /\ lastOp' = ""
    /\ result' = <<>>
    /\ IF pval.syntax
       THEN phase' = "err" /\ err' = pval
       ELSE phase' = "crash" /\ err' = NoError
    /\ UNCHANGED <<args, index, ret, pval, run, first>>

(***************************************************************************)
(* parse1                                                                  *)
(***************************************************************************)
\* A slip: the key keyword forgotten in the test of the first argument.
FirstIsKeyColonOnly(a) == HasColonSuffix(a)

\* The first argument decides: an object key makes the whole list one object.
FirstIsKey(a) == HasColonSuffix(a) \/ a = tKey

P1Start ==
    /\ At("parse1", "start")
    /\ IF ~Peek.ok THEN Finish("peek", <<>>)
       ELSE IF FirstIsKey(Peek.a)
       THEN Go(index, "peek",
               <<P1Frame("afterObj", <<>>), KVFrame("peek", EmptyMap, <<>>)>>, ret)
       ELSE Go(index, "peek", <<P1Frame("loop", <<>>)>>, ret)

\* A slip: the arguments left after the object passed over in silence.
P1AfterObjLenient ==
    /\ At("parse1", "afterObj")
    /\ Finish("peek", <<ret>>)

P1AfterObj ==
    /\ At("parse1", "afterObj")
    /\ IF Peek.ok
       THEN Panic(index, "peek",
                  SyntaxError("TrailingArgument", PosAtCursor(index), Peek.a))
       ELSE Finish("peek", <<ret>>)

P1Loop ==
    /\ At("parse1", "loop")
    /\ IF ~Peek.ok THEN Finish("peek", Top.exprs)
       ELSE IF Peek.a = tClose
       THEN Panic(index, "peek",
                  SyntaxError("StrayCloseBracket", PosAtCursor(index), Peek.a))
       ELSE Go(index, "peek",
               <<P1Frame("append", Top.exprs), PVFrame("start", <<>>)>>, ret)

P1Append ==
    /\ At("parse1", "append")
    /\ Go(index, "", <<P1Frame("loop", Append(Top.exprs, ret))>>, ret)

(***************************************************************************)
(* parseKeyValues                                                          *)
(***************************************************************************)
\* A slip: the object ends only where the arguments end.
KVAtEndOfArgs(pk) == ~pk.ok

\* A slip: the object left at any argument that is no key, for the caller to
\* find the ] or complain.
KVAtEndAtNonKey(pk) == ~pk.ok \/ ~(HasColonSuffix(pk.a) \/ pk.a = tKey)

\* !ok || key == "]"
KVAtEnd(pk) == ~pk.ok \/ pk.a = tClose

\* key[0 : len(key)-1] of a key with the colon suffix
ColonKey(a) == StripLast(a)

\* A slip: the colon stripped from the argument after the key keyword too.
LiteralKeyStripped(a) == IF HasColonSuffix(a) THEN StripLast(a) ELSE a

\* the argument after the key keyword, as the key
LiteralKey(a) == a

KVPeek ==
    /\ At("parseKeyValues", "peek")
    /\ IF KVAtEnd(Peek) THEN Go(index, "peek", Rest, ObjectV(Top.v))
       ELSE IF Peek.a = tKey
       THEN Go(index, "peek", Append(Rest, KVFrame("keyNext", Top.v, Peek.a)), ret)
       ELSE IF ~HasColonSuffix(Peek.a)
       THEN Panic(index, "peek", SyntaxError("ExpectedKey", PosAtCursor(index), Peek.a))
       ELSE Go(index, "peek", Append(Rest, KVFrame("next", Top.v, ColonKey(Peek.a))), ret)

KVKeyNext ==
    /\ At("parseKeyValues", "keyNext")
    /\ Go(AfterNext, "next", Append(Rest, KVFrame("keyPeek", Top.v, Top.key)), ret)

KVKeyPeek ==
    /\ At("parseKeyValues", "keyPeek")
    /\ IF ~Peek.ok THEN UnexpectedEnd("mustPeek")
       ELSE Go(index, "mustPeek",
               Append(Rest, KVFrame("next", Top.v, LiteralKey(Peek.a))), ret)

KVNext ==
    /\ At("parseKeyValues", "next")
    /\ Go(AfterNext, "next",
          Rest \o <<KVFrame("store", Top.v, Top.key), PVFrame("start", <<>>)>>, ret)

KVStore ==
    /\ At("parseKeyValues", "store")
    /\ Go(index, "", Append(Rest, KVFrame("peek", MapPut(Top.v, Top.key, ret), <<>>)), ret)

(***************************************************************************)
(* parseValue                                                              *)
(***************************************************************************)
\* A slip: the key keyword forgotten in the test of a value.
ValueIsKeyColonOnly(a) == HasColonSuffix(a)

\* A key where a value is expected.
ValueIsKey(a) == HasColonSuffix(a) \/ a = tKey

\* strconv.ParseFloat(a, 64) of each argument of the model, worked out once.
FloatOfArg == [a \in ArgSet |-> ParseFloat(a)]

\* A slip: the default case without the test for a float.
AutoDetectString(a) == StringV(a)

\* The default case for an argument that is no key: a float if it looks like
\* one, else the argument as a string.
AutoDetect(a) ==
    LET n == FloatOfArg[a]
    IN  IF n.err = "" THEN FloatV(n.f) ELSE StringV(a)

\* var v []interface{} ... return v: nil unless something was appended.
SliceOf(elems) == ArrayV(elems, elems = <<>>)

PVStart ==
    /\ At("parseValue", "start")
    /\ IF ~Peek.ok THEN UnexpectedEnd("mustNext")
       ELSE LET a == Peek.a
                i == AfterNext
                goto(pc) == Go(i, "mustNext", Append(Rest, PVFrame(pc, <<>>)), ret)
                return(v) == Go(i, "mustNext", Rest, v)
            IN  CASE a = tOpen ->
                        Go(i, "mustNext",
                           Rest \o <<PVFrame("objClose", <<>>), KVFrame("peek", EmptyMap, <<>>)>>,
                           ret)
                  [] a = tArr -> goto("arrPeek")
                  [] a = tNull -> return(Null)
                  [] a = tTrue -> return(BoolV(TRUE))
                  [] a = tFalse -> return(BoolV(FALSE))
                  [] a = tStr -> goto("strArg")
                  [] a = tJson -> goto("jsonArg")
                  [] a = tJsonstr ->
                        Go(i, "mustNext",
                           Rest \o <<PVFrame("jsonstrRet", <<>>), PVFrame("start", <<>>)>>, ret)
                  [] a = tNum -> goto("numArg")
                  [] a = tBool -> goto("boolArg")
                  [] OTHER ->
                        IF ValueIsKey(a)
                        THEN Panic(i, "mustNext",
                                   SyntaxError("UnexpectedKey", PosBeforeCursor(i), a))
                        ELSE return(AutoDetect(a))

PVObjClose ==
    /\ At("parseValue", "objClose")
    /\ IF ~Peek.ok THEN UnexpectedEnd("mustNext")
       ELSE IF Peek.a /= tClose
       THEN Panic(AfterNext, "mustNext",
                  SyntaxError("ExpectedCloseBracket", PosBeforeCursor(AfterNext), Peek.a))
       ELSE Go(AfterNext, "mustNext", Rest, ret)

PVArrPeek ==
    /\ At("parseValue", "arrPeek")
    /\ IF ~Peek.ok THEN UnexpectedEnd("mustPeek")
       ELSE IF Peek.a = tClose
       THEN Go(index, "mustPeek", Append(Rest, PVFrame("arrNext", Top.v)), ret)
       ELSE Go(index, "mustPeek",
               Rest \o <<PVFrame("arrAppend", Top.v), PVFrame("start", <<>>)>>, ret)

PVArrNext ==
    /\ At("parseValue", "arrNext")
    /\ Go(AfterNext, "next", Rest, SliceOf(Top.v))

PVArrAppend ==
    /\ At("parseValue", "arrAppend")
    /\ Go(index, "", Append(Rest, PVFrame("arrPeek", Append(Top.v, ret))), ret)

PVStrArg ==
    /\ At("parseValue", "strArg")
    /\ IF ~Peek.ok THEN UnexpectedEnd("mustNext")
       ELSE Go(AfterNext, "mustNext", Rest, StringV(Peek.a))

PVJsonArg ==
    /\ At("parseValue", "jsonArg")
    /\ IF ~Peek.ok THEN UnexpectedEnd("mustNext")
       ELSE LET x == Decode(Peek.a)
            IN  IF x.err
                THEN Panic(AfterNext, "mustNext",
                           SyntaxError("InvalidEmbeddedJson", PosBeforeCursor(AfterNext), Peek.a))
                ELSE Go(AfterNext, "mustNext", Rest, x.v)

PVJsonstrRet ==
    /\ At("parseValue", "jsonstrRet")
    /\ LET data == Marshal(ret)
       IN  IF data.err THEN Panic(index, "", MarshalError)
           ELSE Go(index, "", Rest, StringV(data.text))

\* The num assertion's result for an argument ParseFloat took as n.
NumResult(a, n) ==
    IF IsInfOrNaN(n)
    THEN [err |-> TRUE, v |-> Null]
    ELSE [err |-> FALSE, v |-> NumberV(a)]

PVNumArg ==
    /\ At("parseValue", "numArg")
    /\ IF ~Peek.ok THEN UnexpectedEnd("mustNext")
       ELSE LET a == Peek.a
                n == FloatOfArg[a]
            IN  IF n.err /= ""
                THEN Panic(AfterNext, "mustNext",
                           SyntaxError("InvalidNumber", PosBeforeCursor(AfterNext), a))
                ELSE IF NumResult(a, n.f).err
                THEN Panic(AfterNext, "mustNext", SyntaxError("NonFiniteNumber", NoPos, a))
                ELSE Go(AfterNext, "mustNext", Rest, NumResult(a, n.f).v)

PVBoolArg ==
    /\ At("parseValue", "boolArg")
    /\ IF ~Peek.ok THEN UnexpectedEnd("mustNext")
       ELSE LET v == ParseBool(Peek.a)
            IN  IF v.err
                THEN Panic(AfterNext, "mustNext",
                           SyntaxError("InvalidBoolean", PosBeforeCursor(AfterNext), Peek.a))
                ELSE Go(AfterNext, "mustNext", Rest, BoolV(v.b))

(***************************************************************************)
(* parse called a second time, as TestParse calls it on one list after     *)
(* another: on the first list between [ and ], when the first list starts  *)
(* with a key; on jsonstr and the first list, when the first list parsed   *)
(* as one value that does not start with a key.                            *)
(***************************************************************************)
Outcome == [args |-> args, phase |-> phase, result |-> result, err |-> err]

ParseBracketed ==
    /\ run = "base"
    /\ phase \in {"ok", "err"}
    /\ args /= <<>>
    /\ FirstIsKey(args[1])
    /\ run' = "bracketed"
    /\ first' = Outcome
    /\ Start(<<tOpen>> \o args \o <<tClose>>)

ParseJsonstr ==
    /\ run = "base"
    /\ phase = "ok"
    /\ Len(result) = 1
    /\ ~FirstIsKey(args[1])
    /\ run' = "jsonstr"
    /\ first' = Outcome
    /\ Start(<<tJsonstr>> \o args)

Next ==
    \/ Recover
    \/ P1Start
    \/ P1AfterObj
    \/ P1Loop
    \/ P1Append
    \/ KVPeek
    \/ KVKeyNext
    \/ KVKeyPeek
    \/ KVNext
    \/ KVStore
    \/ PVStart
    \/ PVObjClose
    \/ PVArrPeek
    \/ PVArrNext
    \/ PVArrAppend
    \/ PVStrArg
    \/ PVJsonArg
    \/ PVJsonstrRet
    \/ PVNumArg
    \/ PVBoolArg
    \/ ParseBracketed
    \/ ParseJsonstr

Spec == Init /\ [][Next]_vars

Done == phase \in {"ok", "err", "crash"}

\* A step of the parse itself: parse, once called, runs on until it returns
\* or panics; nothing else has to happen for it to take its next step.
ParseStep ==
    \/ Recover
    \/ P1Start \/ P1AfterObj \/ P1Loop \/ P1Append
    \/ KVPeek \/ KVKeyNext \/ KVKeyPeek \/ KVNext \/ KVStore
    \/ PVStart \/ PVObjClose \/ PVArrPeek \/ PVArrNext \/ PVArrAppend
    \/ PVStrArg \/ PVJsonArg \/ PVJsonstrRet \/ PVNumArg \/ PVBoolArg

\* The argument lists the parse is run to its end on.
LiveArgLists ==
    UNION {[1..n -> CoreArgs] : n \in 0..MaxLiveArgs}
        \cup UNION {[1..n -> ArgSet] : n \in 0..MaxLiveWide}

LiveInit ==
    /\ args \in LiveArgLists
    /\ index = 0
    /\ stack = <<P1Frame("start", <<>>)>>
    /\ ret = Null
    /\ lastOp = ""
    /\ phase = "run"
    /\ pval = NoError
    /\ result = <<>>
    /\ err = NoError
    /\ run = "base"
    /\ first = NoRun

\* The program run to its end: a parse that can take a step takes it.
LiveSpec == LiveInit /\ [][Next]_vars /\ WF_vars(ParseStep)

(***************************************************************************)
(* Properties.                                                             *)
(***************************************************************************)
\* An argument that ends with a colon or is the key keyword, as the claims
\* word it.
KeyLike(a) == (a /= <<>> /\ a[Len(a)] = ":") \/ a = <<"k", "e", "y">>

\* Arguments that are one value each whatever surrounds them, and that value.
ScalarArgs == {tNull, tTrue, <<"b">>}

ScalarValue(a) ==
    CASE a = tNull -> Null
      [] a = tTrue -> BoolV(TRUE)
      [] OTHER -> StringV(a)

\* The error of the parse, while it unwinds and once parse has returned it.
Failure == IF phase = "panic" THEN pval ELSE err

Failed == phase \in {"panic", "err"}

\* C1: on a non-empty list, a first argument that ends with ':' or is 'key'
\* makes the whole list one Object, the result being a one-element sequence
\* holding it, with every argument read (an argument left after the object is
\* a TrailingArgument error, which only this mode raises); any other first
\* argument makes the result the sequence of the top-level values in argument
\* order, one entry per value, and a key-like first argument is never itself
\* rejected as a stray bracket or as a key in value position.
C1_FirstArgumentDecides ==
    (args /= <<>>) =>
        /\ (phase = "ok" /\ KeyLike(args[1])) =>
                /\ Len(result) = 1
                /\ result[1].kind = "object"
                /\ index = Len(args)
        /\ (Failed /\ KeyLike(args[1])) =>
                /\ Failure.kind /= "StrayCloseBracket"
                /\ ~(Failure.kind = "UnexpectedKey" /\ Failure.pos = 0)
        /\ (Failed /\ Failure.kind = "TrailingArgument") =>
                /\ KeyLike(args[1])
                /\ index < Len(args)
        /\ (phase = "panic" /\ Top.fn = "parse1" /\ Top.pc = "afterObj") =>
                /\ pval.kind = "TrailingArgument"
                /\ index < Len(args)
        /\ (phase = "ok" /\ ~KeyLike(args[1])) =>
                /\ Len(result) >= 1
                /\ Len(result) <= Len(args)
                /\ index = Len(args)
                /\ (\A i \in 1..Len(args) : args[i] \in ScalarArgs) =>
                        result = [i \in 1..Len(args) |-> ScalarValue(args[i])]
        /\ (At("parse1", "afterObj") \/ At("parse1", "loop")) =>
                (At("parse1", "afterObj") <=> KeyLike(args[1]))

\* C1 witness: a list that starts with the key keyword has parsed as one object.
C1_Witness ==
    /\ run = "base"
    /\ phase = "ok"
    /\ Len(args) = 3
    /\ args[1] = tKey
    /\ Len(result) = 1
    /\ result[1].kind = "object"

\* C2 as stated: when the list T starts with a key and parses as a top-level
\* object, [ T ] parses too and to the same result; when T fails, [ T ] fails.
C2_BracketedIsTheSame_Original ==
    (run = "bracketed" /\ Done) =>
        /\ first.phase = "ok" => (phase = "ok" /\ result = first.result)
        /\ first.phase = "err" => phase /= "ok"

\* C2 amended: when the list T starts with a key and parses as a top-level
\* object, [ T ] parses too and to the same result; when T fails with an
\* error other than TrailingArgument, [ T ] fails.
C2_BracketedIsTheSame ==
    (run = "bracketed" /\ Done) =>
        /\ args = <<tOpen>> \o first.args \o <<tClose>>
        /\ first.phase = "ok" => (phase = "ok" /\ result = first.result)
        /\ (first.phase = "err" /\ first.err.kind /= "TrailingArgument") => phase /= "ok"

\* C2 witness: an object of two keys parsed the same with and without brackets.
C2_Witness ==
    /\ run = "bracketed"
    /\ phase = "ok"
    /\ first.phase = "ok"
    /\ result = first.result
    /\ Cardinality(DOMAIN result[1].m) = 2

\* C3: whenever the argument parseValue takes as its discriminator ends with
\* ':' or is 'key', the parse fails there with UnexpectedKey citing the
\* position of that argument, and no value is returned for it; and every
\* UnexpectedKey error cites a key-like argument.
C3_KeyInValuePosition ==
    /\ [][(At("parseValue", "start") /\ Peek.ok /\ KeyLike(Peek.a)) =>
            /\ phase' = "panic"
            /\ pval'.kind = "UnexpectedKey"
            /\ pval'.pos = index
            /\ args[pval'.pos + 1] = Peek.a
            /\ ret' = ret]_vars
    /\ [](Failed /\ Failure.kind = "UnexpectedKey" =>
            /\ Failure.pos \in 0..(Len(args) - 1)
            /\ KeyLike(args[Failure.pos + 1]))
    /\ [](Done /\ Len(args) >= 2 /\ HasColonSuffix(args[1]) /\ KeyLike(args[2]) =>
            /\ phase = "err"
            /\ err.kind = "UnexpectedKey"
            /\ err.pos = 1)

\* C3 witness: the key keyword as a later top-level value was rejected.
C3_Witness ==
    /\ phase = "err"
    /\ err.kind = "UnexpectedKey"
    /\ err.pos = 2
    /\ args[3] = tKey
    /\ ~KeyLike(args[1])

\* C4 as stated: parse ends with a value sequence and a nil error, or with a
\* syntax error and a nil value; no failure, that of serializing the operand
\* of jsonstr included, leaves parse as a panic.
C4_ValuesOrError ==
    Done =>
        \/ phase = "ok" /\ err = NoError
        \/ phase = "err" /\ err.syntax /\ result = <<>>

\* The numbers of a value tree all have a text that is a JSON number.
RECURSIVE NumbersValid(_)
NumbersValid(v) ==
    CASE v.kind = "number" -> IsValidNumber(v.text)
      [] v.kind = "float" -> ~IsInfOrNaN(v.f) /\ IsValidNumber(FormatFloat(v.f))
      [] v.kind = "array" -> \A i \in 1..Len(v.elems) : NumbersValid(v.elems[i])
      [] v.kind = "object" -> \A k \in DOMAIN v.m : NumbersValid(v.m[k])
      [] OTHER -> TRUE

\* C5 as stated: every Number of a successful parse, from the num assertion
\* or from auto-detection, has a text that is a valid JSON number: no leading
\* '+', never Inf or NaN.
C5_NumbersAreJsonNumbers ==
    phase = "ok" => \A i \in 1..Len(result) : NumbersValid(result[i])

\* The errors whose message cites an argument position.
PositionKinds ==
    {"TrailingArgument", "StrayCloseBracket", "ExpectedKey", "UnexpectedKey",
     "InvalidNumber", "InvalidBoolean", "InvalidEmbeddedJson"}

\* C6 as stated: an error that cites a position cites the 1-based index of
\* the offending argument (the first argument is 1).
C6_PositionIsOneBased ==
    (phase = "err" /\ err.kind \in PositionKinds) =>
        /\ err.pos \in 1..Len(args)
        /\ args[err.pos] = err.arg
        /\ err.pos \in {index, index + 1}

\* C6 amended: an error that cites a position cites the position of the
\* offending argument itself (the argument under the cursor, or the one the
\* cursor has just passed), and that position is the argument's 0-based index
\* in the list (the first argument is 0).
C6_PositionIsZeroBased ==
    (phase = "err" /\ err.kind \in PositionKinds) =>
        /\ err.pos \in 0..(Len(args) - 1)
        /\ args[err.pos + 1] = err.arg
        /\ IF err.kind \in {"TrailingArgument", "StrayCloseBracket", "ExpectedKey"}
           THEN err.pos = index
           ELSE err.pos = index - 1

\* C6 witness: a bad operand of num, the third argument, was cited as 2.
C6_Witness ==
    /\ phase = "err"
    /\ err.kind = "InvalidNumber"
    /\ err.pos = 2
    /\ args[2] = tNum
    /\ args[3] = <<"b">>

\* Two values that are the same JSON value: numbers by what they denote.
NumberOf(v) == IF v.kind = "float" THEN v.f ELSE ParseFloat(v.text).f

RECURSIVE SameJson(_, _)
SameJson(v, w) ==
    IF v.kind \in {"float", "number"}
    THEN w.kind \in {"float", "number"} /\ NumberOf(v) = NumberOf(w)
    ELSE IF v.kind = "array"
    THEN /\ w.kind = "array"
         /\ Len(v.elems) = Len(w.elems)
         /\ \A i \in 1..Len(v.elems) : SameJson(v.elems[i], w.elems[i])
    ELSE IF v.kind = "object"
    THEN /\ w.kind = "object"
         /\ DOMAIN v.m = DOMAIN w.m
         /\ \A k \in DOMAIN v.m : SameJson(v.m[k], w.m[k])
    ELSE v = w

\* C7 as stated: when X parses on its own as one value V, jsonstr X parses to
\* a String whose contents are JSON text that decodes back to V.
C7_JsonstrRoundTrip ==
    (run = "jsonstr" /\ Done) =>
        /\ phase = "ok"
        /\ Len(result) = 1
        /\ result[1].kind = "string"
        /\ ~Decode(result[1].s).err
        /\ SameJson(first.result[1], Decode(result[1].s).v)

\* An argument that is no keyword, bracket or key.
Bare(a) ==
    /\ a \notin {tOpen, tArr, tClose, tNull, tTrue, tFalse, tStr, tJson, tJsonstr,
                 tNum, tBool}
    /\ ~KeyLike(a)

\* The text a number value is written with.
NumberText(v) == IF v.kind = "number" THEN v.text ELSE Marshal(v).text

\* C8 as stated: a bare argument that parses as a floating point literal
\* becomes a Number that keeps the argument's text exactly; any other bare
\* argument becomes a String equal to it.
C8_AutoDetectKeepsText ==
    [][(At("parseValue", "start") /\ Peek.ok /\ Bare(Peek.a)) =>
            IF ParseFloat(Peek.a).err = ""
            THEN ret'.kind \in {"float", "number"} /\ NumberText(ret') = Peek.a
            ELSE ret' = StringV(Peek.a)]_vars

\* C8 amended: a bare argument that strconv.ParseFloat accepts becomes the
\* float64 it denotes (written back in the shortest form, so the argument's
\* text is kept only when it is that form; Inf and NaN are accepted too); any
\* other bare argument becomes a String equal to it.  Either way the value is
\* returned and the cursor has passed the argument.
C8_AutoDetectFloat ==
    [][(At("parseValue", "start") /\ Peek.ok /\ Bare(Peek.a)) =>
            /\ phase' = "run"
            /\ index' = index + 1
            /\ stack' = Rest
            /\ IF ParseFloat(Peek.a).err = ""
               THEN /\ ret'.kind = "float"
                    /\ ret'.f = ParseFloat(Peek.a).f
                    /\ ~IsInfOrNaN(ret'.f) =>
                            ParseFloat(FormatFloat(ret'.f)).f = ParseFloat(Peek.a).f
               ELSE ret' = StringV(Peek.a)]_vars

\* C8 witness: the argument 1.50 alone parsed as the float written 1.5.
C8_Witness ==
    /\ phase = "ok"
    /\ args = <<(<<"1", ".", "5", "0">>)>>
    /\ result[1].kind = "float"
    /\ Marshal(result[1]).text = <<"1", ".", "5">>

\* C9: the operand of str and the operand of key are taken as they are,
\* whatever they are: str X is the String X, at the top and as the value of a
\* key; key X in key position is the key X, colon and all, and one value is
\* parsed for it.
C9_LiteralOperands ==
    Done =>
        /\ (Len(args) = 2 /\ args[1] = tStr) =>
                (phase = "ok" /\ result = <<StringV(args[2])>>)
        /\ (Len(args) = 3 /\ args[1] = <<"a", ":">> /\ args[2] = tStr) =>
                (phase = "ok" /\ result = <<ObjectV([k \in {<<"a">>} |-> StringV(args[3])])>>)
        /\ (Len(args) = 3 /\ args[1] = tKey /\ args[3] = tNull) =>
                (phase = "ok" /\ result = <<ObjectV([k \in {args[2]} |-> Null])>>)
        /\ (Len(args) = 4 /\ args[1] = tKey /\ args[3] = tStr) =>
                (phase = "ok" /\ result = <<ObjectV([k \in {args[2]} |-> StringV(args[4])])>>)
        /\ (Len(args) >= 3 /\ args[1] = tKey /\ phase = "ok") =>
                (args[2] \in DOMAIN result[1].m /\ index = Len(args))

\* C9 witness: key a: null gave the key a: with its colon.
C9_Witness ==
    /\ phase = "ok"
    /\ args = <<tKey, <<"a", ":">>, tNull>>
    /\ DOMAIN result[1].m = {<<"a", ":">>}

\* C10 as stated: .[ followed by n >= 0 values and ] is the Array of those n
\* values in argument order; for n = 0 it is an empty Array, a value other
\* than Null (it is not written as null is); without the ] the parse fails
\* with UnexpectedEnd.
C10_ArrayOfValues ==
    (Done /\ run = "base" /\ Len(args) >= 1 /\ args[1] = tArr
          /\ \A i \in 2..(Len(args) - 1) : args[i] \in ScalarArgs) =>
        /\ (Len(args) >= 2 /\ args[Len(args)] = tClose) =>
                /\ phase = "ok"
                /\ Len(result) = 1
                /\ result[1].kind = "array"
                /\ result[1].elems = [i \in 1..(Len(args) - 2) |-> ScalarValue(args[i + 1])]
                /\ index = Len(args)
                /\ Marshal(result[1]).text /= Marshal(Null).text
        /\ (Len(args) = 1 \/ args[Len(args)] \in ScalarArgs) =>
                (phase = "err" /\ err.kind = "UnexpectedEnd")

\* parseKeyValues is at the head of its loop for an object opened with [.
InBracketObject ==
    /\ At("parseKeyValues", "peek")
    /\ Len(stack) >= 2
    /\ stack[Len(stack) - 1].fn = "parseValue"
    /\ stack[Len(stack) - 1].pc = "objClose"

\* C11 as stated: an object opened with [ whose pairs are not followed by ],
\* the arguments ending or another argument standing there, fails with
\* ExpectedCloseBracket.
C11_ExpectedCloseBracket ==
    /\ [][(At("parseValue", "objClose") /\ ~Peek.ok) =>
            (phase' = "panic" /\ pval'.kind = "ExpectedCloseBracket")]_vars
    /\ [][(InBracketObject /\ Peek.ok /\ Peek.a /= tClose /\ ~KeyLike(Peek.a)) =>
            (phase' = "panic" /\ pval'.kind = "ExpectedCloseBracket")]_vars

\* C11 amended: an object opened with [ whose pairs are not followed by ]
\* fails, but never with ExpectedCloseBracket: where the arguments end it
\* fails with UnexpectedEnd (expected ]); where an argument that is neither ]
\* nor a key stands it fails with ExpectedKey at that argument's position,
\* raised by the object loop before ] is asked for, so that the test for ]
\* only ever sees ] or the end of the arguments.
C11_UnterminatedObject ==
    /\ [][(At("parseValue", "objClose") /\ ~Peek.ok) =>
            (phase' = "panic" /\ pval' = SyntaxError("UnexpectedEnd", NoPos, <<>>))]_vars
    /\ [][(InBracketObject /\ Peek.ok /\ Peek.a /= tClose /\ ~KeyLike(Peek.a)) =>
            (phase' = "panic" /\ pval' = SyntaxError("ExpectedKey", index, Peek.a))]_vars
    /\ [](At("parseValue", "objClose") => (~Peek.ok \/ Peek.a = tClose))
    /\ [](Failed => Failure.kind /= "ExpectedCloseBracket")

\* C11 witness: [ a: null and nothing more: the object with its one pair was
\* built and the parse failed where ] was due, with UnexpectedEnd.
C11_Witness ==
    /\ phase = "err"
    /\ run = "base"
    /\ args = <<tOpen, <<"a", ":">>, tNull>>
    /\ index = 3
    /\ ret.kind = "object"
    /\ DOMAIN ret.m = {<<"a">>}
    /\ err.kind = "UnexpectedEnd"

\* The cursor operations a step can make.
Advancing == {"next", "mustNext"}

Looking == {"peek", "mustPeek"}

\* C12: during a parse the cursor index stays between 0 and the number of
\* arguments; it never decreases; it changes only in a step that makes next
\* or mustNext, and then by exactly one; a step that makes peek or mustPeek,
\* a failing mustPeek included, leaves it as it was; a mustNext that succeeds
\* moves it by one; and next with the cursor at the end of the list leaves
\* it at the end.
C12_CursorMoves ==
    /\ [](index \in 0..Len(args))
    /\ [][(run' = run) =>
            /\ index' >= index
            /\ (index' /= index) => (lastOp' \in Advancing /\ index' = index + 1)
            /\ (lastOp' \in Looking) => (index' = index)
            /\ (lastOp' \in Advancing /\ phase' = "run") => (index' = index + 1)
            /\ (lastOp' \in Advancing /\ phase' = "panic"
                    /\ pval'.kind = "UnexpectedEnd") => (index' = index)]_vars
    /\ [](NextFrom(Len(args)) = Len(args))
    /\ [](\A i \in 0..(Len(args) - 1) : NextFrom(i) = i + 1)

\* C12 witness: .[ null and nothing more: two arguments were consumed, then
\* mustPeek failed at the end of the list and the cursor stayed at 2.
C12_Witness ==
    /\ phase = "panic"
    /\ lastOp = "mustPeek"
    /\ args = <<tArr, tNull>>
    /\ index = 2
    /\ pval.kind = "UnexpectedEnd"

\* C13: every parse finishes: a parse that is running leads to one that has
\* returned or panicked out of parse; each parseValue call consumes an
\* argument or fails, and so does each round of the object loop, of the array
\* loop and of the top-level loop (a round either ends the loop, fails, or
\* goes through a step that consumes an argument); and a parse that
\* succeeded has its cursor at the end of the arguments, none left unread.
C13_FinishesAndReadsAll ==
    /\ (phase = "run") ~> Done
    /\ [][At("parseValue", "start") => (phase' = "panic" \/ index' = index + 1)]_vars
    /\ [][At("parseKeyValues", "next") => (phase' = "run" /\ index' = index + 1)]_vars
    /\ [][At("parseValue", "arrNext") => (phase' = "run" /\ index' = index + 1)]_vars
    /\ [][At("parse1", "loop") =>
            \/ phase' \in {"ok", "panic"}
            \/ (stack'[Len(stack')].fn = "parseValue" /\ stack'[Len(stack')].pc = "start")]_vars
    /\ [][At("parseValue", "arrPeek") =>
            \/ phase' = "panic"
            \/ (stack'[Len(stack')].fn = "parseValue"
                    /\ stack'[Len(stack')].pc \in {"start", "arrNext"})]_vars
    /\ [](phase = "ok" => index = Len(args))

\* C13 witness: the parse of .[ [ ] ], through the top-level loop, the array
\* loop and the object loop, that finished with all four arguments read.
C13_Witness ==
    /\ phase = "ok"
    /\ run = "base"
    /\ args = <<tArr, tOpen, tClose, tClose>>
    /\ index = 4
    /\ result = <<ArrayV(<<ObjectV(EmptyMap)>>, FALSE)>>

====
